---- MODULE Spec2Model ----
(***************************************************************************)
(* Model of src/app/fileHandling: the IO wrapper around std::fstream       *)
(* (IO.hpp, IO.cpp) and ReadEnv::getenv (ReadEnv.cpp).                     *)
(*                                                                         *)
(* The state is the file system seen through the paths the program uses,   *)
(* the table of OS file descriptions the program has opened (with the      *)
(* destructor that closed each), the IO object, the streams handed out by  *)
(* getFileStream, the console, and the locals of getenv.                   *)
(***************************************************************************)
EXTENDS Integers, Sequences, FiniteSets, TLC

\* ---------------------------------------------------------------- bounds
MaxLen == 2      \* longest file content, in bytes
MaxCalls == 2    \* IO objects constructed in one behaviour
MaxGets == 2     \* streams obtained from IO objects and still in scope

\* ------------------------------------------------------- program constants
\* Variant: getenv reading another path.
env_pathOther == "P"

env_path == ".env"
Paths == {".env", "P"}
Bytes == {10, 75}          \* '\n' and 'K'

VARIABLES fs, opens, io, held, out, pc, attempts, buffer, content, results

vars == <<fs, opens, io, held, out, pc, attempts, buffer, content, results>>

\* ------------------------------------------------------------ file system
Contents == UNION {[1..n -> Bytes] : n \in 0..MaxLen}

NoFile == [exists |-> FALSE, readable |-> FALSE, writable |-> FALSE, content |-> <<>>]

Files == {NoFile} \cup [exists : {TRUE}, readable : BOOLEAN, writable : BOOLEAN,
                        content : Contents]

\* ------------------------------------------------------------ std::fstream
NullStream == [fd |-> 0, pos |-> 0]

is_open(s) == s.fd # 0

\* Variant: the open also asks for truncation.
OpenModeTrunc == {"in", "out", "trunc", "binary"}

\* The flags IO::IO passes to fstream::open.
OpenMode == {"in", "out", "binary"}

\* basic_filebuf::open maps the flags (binary and ate set aside) to an fopen
\* mode string; any other combination fails.
ModeString(mode) ==
  LET flags == mode \ {"binary", "ate"} IN
  CASE flags \in {{"out"}, {"out", "trunc"}} -> "w"
    [] flags \in {{"app"}, {"out", "app"}} -> "a"
    [] flags = {"in"} -> "r"
    [] flags = {"in", "out"} -> "r+"
    [] flags = {"in", "out", "trunc"} -> "w+"
    [] flags \in {{"in", "app"}, {"in", "out", "app"}} -> "a+"
    [] OTHER -> "fail"

\* fopen(path, m) on file system fsys: whether it succeeds and the file
\* system it leaves.
fopen(fsys, path, m) ==
  LET f == fsys[path]
      needR == m \in {"r", "r+", "w+", "a+"}
      needW == m \in {"r+", "w", "w+", "a", "a+"}
      creates == m \in {"w", "w+", "a", "a+"}
      truncs == m \in {"w", "w+"}
  IN IF m = "fail" THEN [ok |-> FALSE, fs |-> fsys]
     ELSE IF ~f.exists
       THEN IF creates
              THEN [ok |-> TRUE,
                    fs |-> [fsys EXCEPT ![path] = [exists |-> TRUE, readable |-> TRUE,
                                                   writable |-> TRUE, content |-> <<>>]]]
              ELSE [ok |-> FALSE, fs |-> fsys]
       ELSE IF (needR /\ ~f.readable) \/ (needW /\ ~f.writable)
              THEN [ok |-> FALSE, fs |-> fsys]
              ELSE [ok |-> TRUE,
                    fs |-> IF truncs THEN [fsys EXCEPT ![path].content = <<>>] ELSE fsys]

\* file_stream.open(file_path, mode) on a stream that is not open.
fstream_open(fsys, ofs, path, mode) ==
  LET r == fopen(fsys, path, ModeString(mode)) IN
  IF r.ok
    THEN [stream |-> [fd |-> Len(ofs) + 1,
                      pos |-> IF "ate" \in mode THEN Len(r.fs[path].content) ELSE 0],
          fs |-> r.fs,
          opens |-> Append(ofs, [path |-> path, closers |-> <<>>])]
    ELSE [stream |-> NullStream, fs |-> r.fs, opens |-> ofs]

\* Variant: the stream is copied out and the source keeps its file.
MovedFromKeep(s) == s

\* The state of a stream after std::move has taken its file: the moved-from
\* basic_filebuf references no file and is_open() is false.
MovedFrom(s) == NullStream

\* basic_filebuf::close() run on behalf of destructor `who`: releases the
\* descriptor when the stream is open, does nothing otherwise.
fstream_close(ofs, s, who) ==
  IF is_open(s)
    THEN [ofs EXCEPT ![s.fd].closers = Append(@, who)]
    ELSE ofs

\* std::fstream::~fstream
fstream_dtor(ofs, s) == fstream_close(ofs, s, "fstream::~fstream")

\* The characters of the sequence d from offset p (0-based) to its end,
\* taken one at a time as operator<<(streambuf*) does.
RECURSIVE ReadFrom(_, _)
ReadFrom(d, p) ==
  IF p >= Len(d) THEN <<>> ELSE <<d[p + 1]>> \o ReadFrom(d, p + 1)

\* Variant: a reader that drops one trailing newline.
SlurpTrim(fsys, ofs, s) ==
  LET d == IF is_open(s) THEN ReadFrom(fsys[ofs[s.fd].path].content, s.pos) ELSE <<>>
  IN IF Len(d) > 0 /\ d[Len(d)] = 10 THEN SubSeq(d, 1, Len(d) - 1) ELSE d

\* What `buffer << f_stream.rdbuf()` extracts: everything from the stream's
\* position to end of file; nothing from a stream that is not open.
Slurp(fsys, ofs, s) ==
  IF is_open(s) THEN ReadFrom(fsys[ofs[s.fd].path].content, s.pos) ELSE <<>>

\* The stream after that full read.
AfterSlurp(fsys, ofs, s) ==
  IF is_open(s) THEN [s EXCEPT !.pos = Len(fsys[ofs[s.fd].path].content)] ELSE s

\* ------------------------------------------------------------------ IO
NoIO == [alive |-> FALSE, file_path |-> "", file_stream |-> NullStream]

\* Variant: the message without the path.
DiagnosticNoPath(file_path) == <<"Unable to openthe file: ">>

\* The line written to std::cout when the open fails.
Diagnostic(file_path) == <<"Unable to openthe file: ", file_path>>

\* Variant: the diagnostic is written unconditionally.
ShouldReportAlways(s) == TRUE

\* if(!file_stream.is_open())   the condition guarding the diagnostic
ShouldReport(s) == ~is_open(s)

\* Variant: a constructor that retries a failed open once.
IO_ctorRetry(file_path) ==
  LET r == fstream_open(fs, opens, file_path, OpenMode)
      r2 == IF is_open(r.stream) THEN r ELSE fstream_open(r.fs, r.opens, file_path, OpenMode)
  IN [io |-> [alive |-> TRUE, file_path |-> file_path, file_stream |-> r2.stream],
      fs |-> r2.fs,
      opens |-> r2.opens,
      attempts |-> IF is_open(r.stream) THEN 1 ELSE 2,
      out |-> IF ShouldReport(r2.stream) THEN Append(out, Diagnostic(file_path)) ELSE out]

\* IO::IO(file_path): one open attempt, a diagnostic when it failed.
IO_ctor(file_path) ==
  LET r == fstream_open(fs, opens, file_path, OpenMode) IN
  [io |-> [alive |-> TRUE, file_path |-> file_path, file_stream |-> r.stream],
   fs |-> r.fs,
   opens |-> r.opens,
   attempts |-> 1,
   out |-> IF ShouldReport(r.stream) THEN Append(out, Diagnostic(file_path)) ELSE out]

\* IO::getFileStream(): the returned stream is move-constructed from
\* file_stream, which is left moved-from.
IO_getFileStream(obj) ==
  [ret |-> obj.file_stream,
   io |-> [obj EXCEPT !.file_stream = MovedFrom(obj.file_stream)]]

\* Variant: a destructor that never closes.
IO_dtorNoClose(ofs, obj) == ofs

\* IO::~IO(): closes file_stream if it is open.
IO_dtor(ofs, obj) ==
  IF is_open(obj.file_stream)
    THEN fstream_close(ofs, obj.file_stream, "IO::~IO")
    ELSE ofs

\* Variant: a buffer that outlives the call (static).
DeclareBufferStatic(old) == old

\* std::stringstream buffer;   a fresh, empty buffer at each declaration
DeclareBuffer(old) == <<>>

\* ---------------------------------------------------------------- states
Calls == Len(opens) + Len(out)

Init ==
  /\ fs \in [Paths -> Files]
  /\ opens = <<>>
  /\ io = NoIO
  /\ held = <<>>
  /\ out = <<>>
  /\ pc = "idle"
  /\ attempts = 0
  /\ buffer = <<>>
  /\ content = <<>>
  /\ results = <<>>

\* --------------------------------------------- direct use of the IO class
\* IO io(p);
Construct(p) ==
  /\ pc = "idle"
  /\ Calls < MaxCalls
  /\ LET r == IO_ctor(p) IN
       /\ io' = r.io
       /\ fs' = r.fs
       /\ opens' = r.opens
       /\ out' = r.out
       /\ attempts' = r.attempts
  /\ pc' = "api"
  /\ UNCHANGED <<held, buffer, content, results>>

\* std::fstream s = io.getFileStream();
GetFileStream ==
  /\ pc = "api"
  /\ io.alive
  /\ Len(held) < MaxGets
  /\ LET r == IO_getFileStream(io) IN
       /\ held' = Append(held, r.ret)
       /\ io' = r.io
  /\ UNCHANGED <<fs, opens, out, pc, attempts, buffer, content, results>>

\* A caller reads the most recently obtained stream to its end.
ClientRead ==
  /\ pc = "api"
  /\ held # <<>>
  /\ LET s == held[Len(held)] IN
       /\ content' = Slurp(fs, opens, s)
       /\ held' = [held EXCEPT ![Len(held)] = AfterSlurp(fs, opens, s)]
  /\ UNCHANGED <<fs, opens, io, out, pc, attempts, buffer, results>>

\* The most recently obtained stream goes out of scope.
DestroyStream ==
  /\ pc = "api"
  /\ held # <<>>
  /\ opens' = fstream_dtor(opens, held[Len(held)])
  /\ held' = SubSeq(held, 1, Len(held) - 1)
  /\ pc' = IF ~io.alive /\ held' = <<>> THEN "idle" ELSE "api"
  /\ UNCHANGED <<fs, io, out, attempts, buffer, content, results>>

\* The IO object goes out of scope.
DestroyIO ==
  /\ pc = "api"
  /\ io.alive
  /\ opens' = IO_dtor(opens, io)
  /\ io' = NoIO
  /\ pc' = IF held = <<>> THEN "idle" ELSE "api"
  /\ UNCHANGED <<fs, held, out, attempts, buffer, content, results>>

\* ------------------------------------------------------- ReadEnv::getenv
\* Entry: std::string env_path = ".env";
GetenvCall ==
  /\ pc = "idle"
  /\ Calls < MaxCalls
  /\ pc' = "L45"
  /\ attempts' = 0
  /\ UNCHANGED <<fs, opens, io, held, out, buffer, content, results>>

\* IO io(env_path);
GetenvL45 ==
  /\ pc = "L45"
  /\ LET r == IO_ctor(env_path) IN
       /\ io' = r.io
       /\ fs' = r.fs
       /\ opens' = r.opens
       /\ out' = r.out
       /\ attempts' = r.attempts
  /\ pc' = "L48"
  /\ UNCHANGED <<held, buffer, content, results>>

\* std::fstream f_stream = io.getFileStream();
GetenvL48 ==
  /\ pc = "L48"
  /\ LET r == IO_getFileStream(io) IN
       /\ held' = <<r.ret>>
       /\ io' = r.io
  /\ pc' = "L51"
  /\ UNCHANGED <<fs, opens, out, attempts, buffer, content, results>>

\* std::stringstream buffer;
GetenvL51 ==
  /\ pc = "L51"
  /\ buffer' = DeclareBuffer(buffer)
  /\ pc' = "L54"
  /\ UNCHANGED <<fs, opens, io, held, out, attempts, content, results>>

\* buffer << f_stream.rdbuf();
GetenvL54 ==
  /\ pc = "L54"
  /\ buffer' = buffer \o Slurp(fs, opens, held[1])
  /\ held' = <<AfterSlurp(fs, opens, held[1])>>
  /\ pc' = "L57"
  /\ UNCHANGED <<fs, opens, io, out, attempts, content, results>>

\* std::string content = buffer.str();
GetenvL57 ==
  /\ pc = "L57"
  /\ content' = buffer
  /\ pc' = "L60"
  /\ UNCHANGED <<fs, opens, io, held, out, attempts, buffer, results>>

\* return content;  then the locals die in reverse order of declaration:
\* f_stream first, io last.
GetenvL60 ==
  /\ pc = "L60"
  /\ results' = Append(results, content)
  /\ opens' = IO_dtor(fstream_dtor(opens, held[1]), io)
  /\ held' = <<>>
  /\ io' = NoIO
  /\ pc' = "idle"
  /\ UNCHANGED <<fs, out, attempts, buffer, content>>

GetenvStep ==
  \/ GetenvL45
  \/ GetenvL48
  \/ GetenvL51
  \/ GetenvL54
  \/ GetenvL57
  \/ GetenvL60

Next ==
  \/ \E p \in Paths : Construct(p)
  \/ GetFileStream
  \/ ClientRead
  \/ DestroyStream
  \/ DestroyIO
  \/ GetenvCall
  \/ GetenvStep

Spec == Init /\ [][Next]_vars

\* getenv is straight-line code: once entered, each statement is executed.
FairSpec == Spec /\ WF_vars(GetenvStep)

TypeOK ==
  /\ fs \in [Paths -> Files]
  /\ pc \in {"idle", "api", "L45", "L48", "L51", "L54", "L57", "L60"}
  /\ io.alive \in BOOLEAN
  /\ Len(held) <= MaxGets
\* ------------------------------------------------------- shared vocabulary
Last(q) == q[Len(q)]

Mentions(msg, path) == \E k \in DOMAIN msg : msg[k] = path

ReadWritable(f) == f.exists /\ f.readable /\ f.writable

InGetenv == pc \in {"L45", "L48", "L51", "L54", "L57", "L60"}

ConstructStep == ~io.alive /\ io'.alive

DestroyIOStep == io.alive /\ ~io'.alive

GetStep == io.alive /\ io'.alive /\ Len(held') = Len(held) + 1

ReadStep == (pc = "L54") \/ (pc = "api" /\ Len(held') = Len(held) /\ held # <<>>
                              /\ (held' # held \/ content' # content))

OpenStreams ==
  {i \in DOMAIN held : is_open(held[i])}

\* The descriptors of table ofs that destructor `who` has closed.
ClosedBy(ofs, who) ==
  {k \in DOMAIN ofs : \E j \in DOMAIN ofs[k].closers : ofs[k].closers[j] = who}

\* What a read step delivered: getenv accumulates in buffer, a direct
\* caller takes the string.
Delivered == IF pc = "L54" THEN buffer' ELSE content'

ReadStream == IF pc = "L54" THEN held[1] ELSE Last(held)

\* ------------------------------------------------------------------- C1
\* C1: every successfully opened file is closed at most once at any time,
\* and exactly once as soon as neither the IO object nor any stream
\* obtained from it is alive, whether or not getFileStream was called.
C1_ClosedExactlyOnce ==
  /\ \A k \in DOMAIN opens : Len(opens[k].closers) <= 1
  /\ (~io.alive /\ held = <<>> /\ pc \in {"idle", "L45"})
        => \A k \in DOMAIN opens : Len(opens[k].closers) = 1

C1_Witness ==
  /\ pc = "idle"
  /\ \E k \in DOMAIN opens : opens[k].closers = <<"IO::~IO">>
  /\ \E k \in DOMAIN opens : opens[k].closers = <<"fstream::~fstream">>

C3_ReadableAsStated ==
  [][ /\ (ConstructStep /\ fs[io'.file_path].exists /\ fs[io'.file_path].readable) =>
            /\ is_open(io'.file_stream)
            /\ io'.file_stream.pos = 0
      /\ (GetStep /\ is_open(io.file_stream)) =>
            /\ Last(held') = io.file_stream
            /\ is_open(Last(held'))
      /\ (ReadStep /\ is_open(ReadStream) /\ ReadStream.pos = 0) =>
            Delivered = fs[opens[ReadStream.fd].path].content
    ]_vars

\* C3 amended: the same for every path that exists and is both readable
\* and writable; in getenv the buffer then holds exactly the bytes of
\* ".env" once the read is done.
C3_ReadWritableContent ==
  /\ [][ /\ (ConstructStep /\ ReadWritable(fs[io'.file_path])) =>
               /\ is_open(io'.file_stream)
               /\ io'.file_stream.pos = 0
         /\ (GetStep /\ is_open(io.file_stream)) =>
               /\ Last(held') = io.file_stream
               /\ is_open(Last(held'))
         /\ (ReadStep /\ is_open(ReadStream) /\ ReadStream.pos = 0) =>
               Delivered = fs[opens[ReadStream.fd].path].content
       ]_vars
  /\ []((pc \in {"L57", "L60"} /\ ReadWritable(fs[".env"])) => buffer = fs[".env"].content)
  /\ []((pc = "L60" /\ ReadWritable(fs[".env"])) => content = fs[".env"].content)

C3_Witness ==
  /\ pc = "api"
  /\ io.alive
  /\ io.file_path = "P"
  /\ fs["P"].content = <<75, 10>>
  /\ Len(held) = 1
  /\ is_open(held[1])
  /\ held[1].pos = 2
  /\ content = <<75, 10>>

C5_EmptyEnv ==
  [][ InGetenv =>
        /\ (pc = "L45") => /\ is_open(io'.file_stream) <=> ReadWritable(fs[".env"])
                           /\ is_open(io'.file_stream) => out' = out
                           /\ ~is_open(io'.file_stream) => Len(out') = Len(out) + 1
        /\ (pc # "L45") => out' = out
        /\ (pc = "L60" /\ (~fs[".env"].exists
                            \/ (ReadWritable(fs[".env"]) /\ fs[".env"].content = <<>>)))
              => results' = Append(results, <<>>)
    ]_vars

C5_Witness ==
  /\ pc = "idle"
  /\ ReadWritable(fs[".env"])
  /\ fs[".env"].content = <<>>
  /\ results = <<<<>>>>
  /\ out = <<>>

\* ------------------------------------------------------------------- C6
\* C6: all strings returned by successive getenv calls on the unchanged
\* ".env" are equal, and a call leaves no descriptor open behind it.
C6_Idempotent ==
  /\ \A i, j \in DOMAIN results : results[i] = results[j]
  /\ (pc = "idle" /\ results # <<>>) => \A k \in DOMAIN opens : opens[k].closers # <<>>

C6_Witness ==
  /\ pc = "idle"
  /\ Len(results) = 2
  /\ results[1] = <<75, 10>>
  /\ results[2] = <<75, 10>>

Lifecycle ==
  IF ~InGetenv THEN "Ended"
  ELSE IF ~io.alive THEN "Unopened"
  ELSE IF held = <<>> THEN (IF is_open(io.file_stream) THEN "Open" ELSE "FailedOpen")
  ELSE IF ~is_open(io.file_stream) THEN "Detached"
  ELSE "Shared"

LifecycleSteps ==
  {<<"Unopened", "Open">>, <<"Unopened", "FailedOpen">>,
   <<"Open", "Detached">>, <<"FailedOpen", "Detached">>,
   <<"Detached", "Detached">>, <<"Detached", "Ended">>}

\* C8: within a getenv call the handle moves only along Unopened ->
\* Open or FailedOpen -> Detached -> scope end; the call makes exactly one
\* open attempt, a wrapper whose stream is not open (failed or detached)
\* stays so and no further open happens, and every call that has started
\* reaches the end of its scope.
C8_Lifecycle ==
  /\ [][ InGetenv =>
           /\ <<Lifecycle, Lifecycle'>> \in LifecycleSteps
           /\ (io.alive /\ ~is_open(io.file_stream) /\ io'.alive)
                 => (~is_open(io'.file_stream) /\ Len(opens') = Len(opens))
           /\ (Lifecycle = "FailedOpen") => ~is_open(Last(held'))
       ]_vars
  /\ [](pc = "L45" => attempts = 0)
  /\ [](pc \in {"L48", "L51", "L54", "L57", "L60"} => attempts = 1)
  /\ (InGetenv ~> (pc = "idle"))

C8_Witness ==
  /\ pc = "L60"
  /\ Lifecycle = "Detached"
  /\ attempts = 1
  /\ ~is_open(held[1])
  /\ Len(results) = 1

\* ------------------------------------------------------------------- C9
\* C9: in getenv, the file that the IO object opened is closed by IO::~IO
\* when the function returns.
C9_ClosedInIODestructor ==
  [][ (pc = "L60" /\ is_open(held[1])) =>
         opens'[held[1].fd].closers = <<"IO::~IO">> ]_vars

\* ------------------------------------------------------------------ C10
\* C10: no step of IO or of getenv changes the existence, the permissions
\* or the content of any file, whether its open succeeds or fails.
C10_FilesUntouched ==
  [][fs' = fs]_vars

C10_Witness ==
  /\ pc = "idle"
  /\ fs[".env"].content = <<75, 10>>
  /\ ~fs["P"].exists
  /\ results = <<<<75, 10>>>>
  /\ Len(opens) = 1
  /\ opens[1].closers # <<>>
  /\ Len(out) = 1
  /\ Mentions(out[1], "P")
====
